---- MODULE Spec2Model ----
(***************************************************************************)
(* Model of physical-xml.c (virt-p2v): generate_physical_xml, which drives *)
(* an XML text writer to produce physical.xml, and                         *)
(* map_interface_to_network.                                               *)
(*                                                                         *)
(* C strings are sequences of one-character strings.  A fixed literal of   *)
(* the source ("network", "qemu", ...) is the one-token sequence L(".."). *)
(* A nullable pointer is a record [set, v].                                *)
(***************************************************************************)
EXTENDS Integers, Sequences, FiniteSets, TLC

VARIABLES
  config,     \* struct config *config (frozen snapshot)
  data_conns, \* struct data_conn *data_conns: sequence of nbd_remote_port
  pc,         \* position of generate_physical_xml
  i,          \* size_t i (0-based loop index)
  xo,         \* the xmlTextWriterPtr: "NULL", "open" or "freed"
  stack,      \* the writer's stack of open elements
  out,        \* the writer calls that succeeded, in order
  misuse,     \* op of a writer call made in a state that forbids it, or "none"
  macReads,   \* result of g_file_get_contents for each interface, this run
  prevOut,    \* out of the previous completed run (nullable)
  prevReads,  \* macReads of the previous completed run
  r_map,      \* map_interface_to_network on its own: config->network_map
  r_iface,    \* ... its interface argument
  r_ret,      \* ... the string it returned (nullable)
  n_i,        \* guestfs_int_drive_name on its own: an index
  n_j,        \* ... a second index
  n_ret       \* ... the names of the two (nullable)

vars == <<config, data_conns, pc, i, xo, stack, out, misuse, macReads,
          prevOut, prevReads, r_map, r_iface, r_ret, n_i, n_j, n_ret>>

composerVars == <<config, data_conns, pc, i, xo, stack, out, misuse,
                  macReads, prevOut, prevReads>>
resolverVars == <<r_map, r_iface, r_ret>>
namerVars == <<n_i, n_j, n_ret>>

----------------------------------------------------------------------------
(* Bounds *)

MaxDisks == 2
MaxRemovable == 2
MaxIfaces == 2
MaxStrLen == 3
MaxMapLen == 2
MaxIndex == 710

----------------------------------------------------------------------------
(* Strings and nullable pointers *)

Null == [set |-> FALSE, v |-> <<>>]
Ptr(x) == [set |-> TRUE, v |-> x]

L(s) == <<s>>

Rep(c, n) == [k \in 1..n |-> c]

RECURSIVE SeqsUpTo(_, _)
SeqsUpTo(S, n) ==
  IF n = 0 THEN {<<>>}
  ELSE LET T == SeqsUpTo(S, n - 1)
       IN T \cup {Append(t, x) : t \in {u \in T : Len(u) = n - 1}, x \in S}

StrChr(s, c) == \E k \in 1..Len(s) : s[k] = c

StrPrefix(s, p) == Len(p) <= Len(s) /\ SubSeq(s, 1, Len(p)) = p

Digits == <<"0", "1", "2", "3", "4", "5", "6", "7", "8", "9">>

RECURSIVE FormatUnsigned(_)
FormatUnsigned(n) ==
  IF n < 10 THEN <<Digits[n + 1]>>
  ELSE Append(FormatUnsigned(n \div 10), Digits[(n % 10) + 1])

FormatDec(n) == IF n < 0 THEN <<"-">> \o FormatUnsigned(0 - n)
                ELSE FormatUnsigned(n)

----------------------------------------------------------------------------
(* guestfs_int_drive_name: a, b, ..., z, aa, ab, ...                        *)
(* A name is computed as a sequence of letter numbers 0..25.               *)

Letters == <<"a", "b", "c", "d", "e", "f", "g", "h", "i", "j", "k", "l", "m",
             "n", "o", "p", "q", "r", "s", "t", "u", "v", "w", "x", "y", "z">>

DriveNamerUnreversed(n) ==
  LET RECURSIVE Rev(_)
      Rev(m) == IF m < 0 THEN <<>> ELSE <<m % 26>> \o Rev((m \div 26) - 1)
  IN Rev(n)

RECURSIVE DriveNameRev(_)
DriveNameRev(n) ==
  IF n < 0 THEN <<>>
  ELSE <<n % 26>> \o DriveNameRev((n \div 26) - 1)

Reverse(s) == [k \in 1..Len(s) |-> s[Len(s) + 1 - k]]

DriveNamer(n) == Reverse(DriveNameRev(n))

DriveName(n) == [k \in 1..Len(DriveNamer(n)) |-> Letters[DriveNamer(n)[k] + 1]]

----------------------------------------------------------------------------
(* Disk target device, lines 176-187 *)

TargetDevSize == 64

TargetDevStrict(disks, n) ==
  LET d == disks[n + 1]
  IN IF Len(d) >= 1 /\ d[1] = "/" THEN <<"s", "d">> \o DriveName(n)
     ELSE IF Len(d) < TargetDevSize - 1 THEN d
     ELSE <<"s", "d">> \o DriveName(n)

TargetDev(disks, n) ==
  LET d == disks[n + 1]
  IN IF Len(d) >= 1 /\ d[1] = "/" THEN <<"s", "d">> \o DriveName(n)
     ELSE IF Len(d) <= TargetDevSize - 1 THEN d
     ELSE <<"s", "d">> \o DriveName(n)

----------------------------------------------------------------------------
(* map_interface_to_network, lines 279-301 *)

Default == L("default")

RECURSIVE MapScanAnyPrefix(_, _, _)
MapScanAnyPrefix(map, interface, k) ==
  IF k > Len(map) THEN Default
  ELSE LET e == map[k]
           len == Len(interface)
       IN IF ~StrChr(e, ":") THEN e
          ELSE IF StrPrefix(e, interface)
               THEN SubSeq(e, len + 2, Len(e))
               ELSE MapScanAnyPrefix(map, interface, k + 1)

RECURSIVE MapScan(_, _, _)
MapScan(map, interface, k) ==
  IF k > Len(map) THEN Default
  ELSE LET e == map[k]
           len == Len(interface)
       IN IF ~StrChr(e, ":") THEN e
          ELSE IF StrPrefix(e, interface) /\ Len(e) >= len + 1
                  /\ e[len + 1] = ":"
               THEN SubSeq(e, len + 2, Len(e))
               ELSE MapScan(map, interface, k + 1)

map_interface_to_network(network_map, interface) ==
  IF ~network_map.set THEN Default
  ELSE MapScan(network_map.v, interface, 1)

----------------------------------------------------------------------------
(* The XML writer as the macros of libxml2-writer-macros.h drive it.       *)
(* A call is [op, name, val]; the writer state is [stack, out, misuse].    *)

start_element(element) == [op |-> "start", name |-> element, val |-> <<>>]
end_element == [op |-> "end", name |-> "", val |-> <<>>]
attribute(key, value) == [op |-> "attr", name |-> key, val |-> value]
string(str) == [op |-> "text", name |-> "", val |-> str]
comment(str) == [op |-> "comment", name |-> "", val |-> str]
empty_element(element) == <<start_element(element), end_element>>
single_element(element, str) ==
  <<start_element(element), string(str), end_element>>

\* Writing content into the innermost open element closes its start tag.
CloseStartTag(st) ==
  IF st = <<>> THEN st ELSE [st EXCEPT ![Len(st)].body = TRUE]

WriterCall(w, c) ==
  IF w.misuse # "none" THEN w
  ELSE IF c.op = "start"
  THEN [w EXCEPT !.stack = Append(CloseStartTag(w.stack),
                                  [name |-> c.name, body |-> FALSE]),
                 !.out = Append(w.out, c)]
  ELSE IF c.op = "comment"
  THEN [w EXCEPT !.stack = CloseStartTag(w.stack), !.out = Append(w.out, c)]
  ELSE IF w.stack = <<>>
  THEN [w EXCEPT !.misuse = c.op]
  ELSE IF c.op = "attr"
  THEN IF w.stack[Len(w.stack)].body
       THEN [w EXCEPT !.misuse = c.op]
       ELSE [w EXCEPT !.out = Append(w.out, c)]
  ELSE IF c.op = "text"
  THEN [w EXCEPT !.stack = CloseStartTag(w.stack), !.out = Append(w.out, c)]
  ELSE [w EXCEPT !.stack = SubSeq(w.stack, 1, Len(w.stack) - 1),
                 !.out = Append(w.out,
                                [c EXCEPT !.name = w.stack[Len(w.stack)].name])]

RECURSIVE WriterRun(_, _, _)
WriterRun(w, calls, k) ==
  IF k > Len(calls) THEN w
  ELSE WriterRun(WriterCall(w, calls[k]), calls, k + 1)

\* xmlTextWriterEndDocument closes whatever is still open.
EndDocument(w) == [w EXCEPT !.stack = <<>>]

\* xml_error, lines 46-49: error (EXIT_FAILURE, ...) leaves the process at
\* once; the writer is left as the failing call found it.
XmlErrorUnwind(w) == [w EXCEPT !.stack = <<>>]

xml_error(w) == w

\* error (EXIT_FAILURE, ...) with the writer handle h: exit () runs no
\* cleanup attribute, the handle is left as it is.
ErrorExitFreeing(h) == IF h = "open" THEN "freed" ELSE h

ErrorExit(h) == h

\* CLEANUP_XMLFREETEXTWRITER, line 65: runs when the function returns.
ScopeExitLeak(h) == h

ScopeExit(h) == IF h = "open" THEN "freed" ELSE h

----------------------------------------------------------------------------
(* The writer calls of each part of generate_physical_xml *)

host_cpu == L("x86_64")

BASIS_UNKNOWN == "BASIS_UNKNOWN"
BASIS_UTC == "BASIS_UTC"
BASIS_LOCALTIME == "BASIS_LOCALTIME"

Opt(c, calls) == IF c THEN calls ELSE <<>>

\* lines 80-92
CommentCallsStamped ==
  <<comment(IF prevOut.set THEN L(" virt-p2v VERSION again ")
            ELSE L(" virt-p2v VERSION ")),
    comment(L(" NOTE! ... "))>>

CommentCalls ==
  <<comment(L(" virt-p2v VERSION ")), comment(L(" NOTE! ... "))>>

\* lines 94-109
DomainHeadCalls(cfg) ==
  LET memkb == cfg.memory \div 1024
  IN <<start_element("domain"), attribute("type", L("physical"))>>
     \o single_element("name", cfg.guestname)
     \o <<start_element("memory"), attribute("unit", L("KiB")),
          string(FormatUnsigned(memkb)), end_element>>
     \o <<start_element("currentMemory"), attribute("unit", L("KiB")),
          string(FormatUnsigned(memkb)), end_element>>
     \o single_element("vcpu", FormatDec(cfg.vcpus))

\* lines 111-135
CpuCalls(cfg) ==
  LET cpu == cfg.cpu
      topo == cpu.sockets # 0 \/ cpu.cores # 0 \/ cpu.threads # 0
  IN Opt(cpu.vendor.set \/ cpu.model.set \/ topo,
       <<start_element("cpu"), attribute("match", L("minimum"))>>
       \o Opt(cpu.vendor.set, single_element("vendor", cpu.vendor.v))
       \o Opt(cpu.model.set,
              <<start_element("model"), attribute("fallback", L("allow")),
                string(cpu.model.v), end_element>>)
       \o Opt(topo,
              <<start_element("topology")>>
              \o Opt(cpu.sockets # 0,
                     <<attribute("sockets", FormatUnsigned(cpu.sockets))>>)
              \o Opt(cpu.cores # 0,
                     <<attribute("cores", FormatUnsigned(cpu.cores))>>)
              \o Opt(cpu.threads # 0,
                     <<attribute("threads", FormatUnsigned(cpu.threads))>>)
              \o <<end_element>>)
       \o <<end_element>>)

\* lines 137-158
ClockCallsUnclosed(cfg) ==
  IF cfg.rtc.basis = BASIS_UTC
  THEN <<start_element("clock"), attribute("offset", L("utc"))>>
  ELSE <<>>

ClockCalls(cfg) ==
  IF cfg.rtc.basis = BASIS_UTC
  THEN <<start_element("clock")>>
       \o (IF cfg.rtc.offset = 0
           THEN <<attribute("offset", L("utc"))>>
           ELSE <<attribute("offset", L("variable")),
                  attribute("basis", L("utc")),
                  attribute("adjustment", FormatDec(cfg.rtc.offset))>>)
       \o <<end_element>>
  ELSE IF cfg.rtc.basis = BASIS_LOCALTIME
  THEN <<start_element("clock"), attribute("offset", L("localtime")),
         end_element>>
  ELSE <<>>

\* lines 160-173
OsFeaturesCallsLateAttr(cfg) ==
  <<start_element("os"), start_element("type"), string(L("hvm")),
    attribute("arch", host_cpu), end_element, end_element,
    start_element("features"), end_element, start_element("devices")>>

OsFeaturesCalls(cfg) ==
  <<start_element("os"), start_element("type"), attribute("arch", host_cpu),
    string(L("hvm")), end_element, end_element>>
  \o <<start_element("features")>>
  \o Opt(cfg.cpu.acpi, empty_element("acpi"))
  \o Opt(cfg.cpu.apic, empty_element("apic"))
  \o Opt(cfg.cpu.pae, empty_element("pae"))
  \o <<end_element>>
  \o <<start_element("devices")>>

\* lines 189-207, disk number n (0-based)
DiskCallsFirstPort(cfg, conns, n) ==
  <<start_element("disk"), attribute("type", L("network")),
    attribute("device", L("disk")),
    start_element("driver"), attribute("name", L("qemu")),
    attribute("type", L("raw")), end_element,
    start_element("source"), attribute("protocol", L("nbd")),
    start_element("host"), attribute("name", L("localhost")),
    attribute("port", FormatDec(conns[1])), end_element,
    end_element,
    start_element("target"), attribute("dev", TargetDev(cfg.disks, n)),
    end_element,
    end_element>>

DiskCalls(cfg, conns, n) ==
  <<start_element("disk"), attribute("type", L("network")),
    attribute("device", L("disk")),
    start_element("driver"), attribute("name", L("qemu")),
    attribute("type", L("raw")), end_element,
    start_element("source"), attribute("protocol", L("nbd")),
    start_element("host"), attribute("name", L("localhost")),
    attribute("port", FormatDec(conns[n + 1])), end_element,
    end_element,
    start_element("target"), attribute("dev", TargetDev(cfg.disks, n)),
    end_element,
    end_element>>

\* lines 212-222, removable number n (0-based)
RemovableCalls(cfg, n) ==
  <<start_element("disk"), attribute("type", L("network")),
    attribute("device", L("cdrom")),
    start_element("driver"), attribute("name", L("qemu")),
    attribute("type", L("raw")), end_element,
    start_element("target"), attribute("dev", cfg.removable.v[n + 1]),
    end_element,
    end_element>>

\* lines 238-243: the contents read, less one trailing newline
MacOf(read) ==
  IF read.set /\ Len(read.v) > 0 /\ read.v[Len(read.v)] = "\n"
  THEN Ptr(SubSeq(read.v, 1, Len(read.v) - 1))
  ELSE read

\* lines 232-258, interface number n (0-based); reads are the results of
\* g_file_get_contents so far in this run, the last one for this interface
InterfaceCallsStaleMac(cfg, n, reads) ==
  LET iface == cfg.interfaces.v[n + 1]
      mac == IF reads[Len(reads)].set \/ Len(reads) = 1
             THEN MacOf(reads[Len(reads)])
             ELSE MacOf(reads[Len(reads) - 1])
  IN <<start_element("interface"), attribute("type", L("network")),
       start_element("source"),
       attribute("network", map_interface_to_network(cfg.network_map, iface)),
       end_element,
       start_element("target"), attribute("dev", iface), end_element>>
     \o Opt(mac.set,
            <<start_element("mac"), attribute("address", mac.v),
              end_element>>)
     \o <<end_element>>

InterfaceCalls(cfg, n, reads) ==
  LET iface == cfg.interfaces.v[n + 1]
      mac == MacOf(reads[Len(reads)])
  IN <<start_element("interface"), attribute("type", L("network")),
       start_element("source"),
       attribute("network", map_interface_to_network(cfg.network_map, iface)),
       end_element,
       start_element("target"), attribute("dev", iface), end_element>>
     \o Opt(mac.set,
            <<start_element("mac"), attribute("address", mac.v),
              end_element>>)
     \o <<end_element>>

\* lines 262-264
CloseCalls == <<end_element, end_element>>

----------------------------------------------------------------------------
(* Inputs *)

Str(a, b) == <<a, b>>

\* cpu, rtc and feature settings that take every branch of lines 111-171
Hosts ==
  { [cpu |-> [vendor |-> Null, model |-> Null, sockets |-> 0, cores |-> 0,
              threads |-> 0, acpi |-> FALSE, apic |-> FALSE, pae |-> FALSE],
     rtc |-> [basis |-> BASIS_UNKNOWN, offset |-> 0]],
    [cpu |-> [vendor |-> Ptr(L("GenuineIntel")), model |-> Null,
              sockets |-> 0, cores |-> 0, threads |-> 0,
              acpi |-> TRUE, apic |-> FALSE, pae |-> FALSE],
     rtc |-> [basis |-> BASIS_UTC, offset |-> 0]],
    [cpu |-> [vendor |-> Null, model |-> Ptr(L("Haswell")),
              sockets |-> 2, cores |-> 0, threads |-> 1,
              acpi |-> FALSE, apic |-> TRUE, pae |-> TRUE],
     rtc |-> [basis |-> BASIS_UTC, offset |-> -7]],
    [cpu |-> [vendor |-> Ptr(L("AuthenticAMD")), model |-> Ptr(L("EPYC")),
              sockets |-> 1, cores |-> 4, threads |-> 2,
              acpi |-> TRUE, apic |-> TRUE, pae |-> TRUE],
     rtc |-> [basis |-> BASIS_LOCALTIME, offset |-> 0]] }

PlainHost == CHOOSE h \in Hosts : h.rtc.basis = BASIS_UNKNOWN

\* a path, a short name, the empty name, the longest name that fits
\* target_dev and the shortest that does not
DiskNames ==
  { Str("/", "x"), <<"v", "d", "a">>, <<>>,
    Rep("n", TargetDevSize - 1), Rep("n", TargetDevSize) }

RemovableNames == <<Str("r", "0"), Str("r", "1"), Str("r", "2"), Str("r", "3")>>

IfaceNames == { Str("e", "0"), Str("e", "1") }

NetworkMaps ==
  { Null, Ptr(<<>>),
    Ptr(<<<<"e", "0", ":", "p">>, <<"b">>>>),
    Ptr(<<<<"e", "1", ":", "p">>>>) }

\* ports: data_conns[k] for k = 0 .. MaxDisks, ascending or descending
PortVectors ==
  { [k \in 1..(MaxDisks + 1) |-> 5000 + k],
    [k \in 1..(MaxDisks + 1) |-> 5000 - k] }

Removables ==
  {Null} \cup {Ptr(SubSeq(RemovableNames, 1, n)) : n \in 0..MaxRemovable}

Interfaces == {Null} \cup {Ptr(s) : s \in SeqsUpTo(IfaceNames, MaxIfaces)}

MkConfig(h, d, r, f, m) ==
  [guestname |-> L("h1"), memory |-> 1049000, vcpus |-> 1,
   cpu |-> h.cpu, rtc |-> h.rtc,
   disks |-> d, removable |-> r, interfaces |-> f, network_map |-> m]

\* every host setting; every list of disks with every list of removables;
\* every list of interfaces with every network map
Configs ==
  {MkConfig(h, <<Str("/", "x")>>, Null, Null, Null) : h \in Hosts}
  \cup {MkConfig(PlainHost, d, r, Ptr(<<Str("e", "0")>>), Null) :
          d \in SeqsUpTo(DiskNames, MaxDisks), r \in Removables}
  \cup {MkConfig(PlainHost, <<<<"v", "d", "a">>, Str("/", "x")>>,
                 Ptr(<<Str("r", "0")>>), f, m) :
          f \in Interfaces, m \in NetworkMaps}

\* what g_file_get_contents can give for /sys/class/net/IFACE/address
MacFileReads == { Null, Ptr(Str("m", "\n")), Ptr(<<>>) }

----------------------------------------------------------------------------
(* generate_physical_xml *)

Writer == [stack |-> stack, out |-> out, misuse |-> misuse]

SetWriter(w) == stack' = w.stack /\ out' = w.out /\ misuse' = w.misuse

\* the calls of one part of the function: any of them may fail, and the
\* function goes on to next only if all succeed
Emit(calls, next, idx) ==
  \E n \in 0..Len(calls) :
    LET w == WriterRun(Writer, SubSeq(calls, 1, n), 1)
    IN IF n = Len(calls) /\ w.misuse = "none"
       THEN /\ SetWriter(w)
            /\ pc' = next
            /\ i' = idx
            /\ xo' = xo
       ELSE /\ SetWriter(xml_error(w))
            /\ pc' = "exit_failure"
            /\ i' = i
            /\ xo' = ErrorExit(xo)

\* lines 68-70
NewTextWriter ==
  /\ pc = "new_writer"
  /\ \/ xo' = "open" /\ pc' = "start_document"
     \/ xo' = ErrorExit(xo) /\ pc' = "exit_failure"
  /\ UNCHANGED <<config, data_conns, i, stack, out, misuse, macReads,
                 prevOut, prevReads>>

\* lines 72-76
StartDocument ==
  /\ pc = "start_document"
  /\ \/ xo' = xo /\ pc' = "comments"
     \/ xo' = ErrorExit(xo) /\ pc' = "exit_failure"
  /\ UNCHANGED <<config, data_conns, i, stack, out, misuse, macReads,
                 prevOut, prevReads>>

\* lines 80-92
Comments ==
  /\ pc = "comments"
  /\ Emit(CommentCalls, "domain", i)
  /\ UNCHANGED <<config, data_conns, macReads, prevOut, prevReads>>

\* lines 94-109
DomainHead ==
  /\ pc = "domain"
  /\ Emit(DomainHeadCalls(config), "cpu", i)
  /\ UNCHANGED <<config, data_conns, macReads, prevOut, prevReads>>

\* lines 111-135
Cpu ==
  /\ pc = "cpu"
  /\ Emit(CpuCalls(config), "clock", i)
  /\ UNCHANGED <<config, data_conns, macReads, prevOut, prevReads>>

\* lines 137-158
Clock ==
  /\ pc = "clock"
  /\ Emit(ClockCalls(config), "os", i)
  /\ UNCHANGED <<config, data_conns, macReads, prevOut, prevReads>>

\* lines 160-173; i = 0 of line 175
OsFeatures ==
  /\ pc = "os"
  /\ Emit(OsFeaturesCalls(config), "disks", 0)
  /\ UNCHANGED <<config, data_conns, macReads, prevOut, prevReads>>

\* lines 175-208, one iteration
Disk ==
  /\ pc = "disks"
  /\ i < Len(config.disks)
  /\ Emit(DiskCalls(config, data_conns, i), "disks", i + 1)
  /\ UNCHANGED <<config, data_conns, macReads, prevOut, prevReads>>

\* line 175 when disks[i] == NULL, lines 210-211
DisksDone ==
  /\ pc = "disks"
  /\ i = Len(config.disks)
  /\ pc' = IF config.removable.set THEN "removable" ELSE "interfaces_if"
  /\ i' = IF config.removable.set THEN 0 ELSE i
  /\ UNCHANGED <<config, data_conns, xo, stack, out, misuse, macReads,
                 prevOut, prevReads>>

\* lines 211-223, one iteration
Removable ==
  /\ pc = "removable"
  /\ i < Len(config.removable.v)
  /\ Emit(RemovableCalls(config, i), "removable", i + 1)
  /\ UNCHANGED <<config, data_conns, macReads, prevOut, prevReads>>

\* line 211 when removable[i] == NULL
RemovableDone ==
  /\ pc = "removable"
  /\ i = Len(config.removable.v)
  /\ pc' = "interfaces_if"
  /\ UNCHANGED <<config, data_conns, i, xo, stack, out, misuse, macReads,
                 prevOut, prevReads>>

\* lines 226-227
InterfacesIf ==
  /\ pc = "interfaces_if"
  /\ pc' = IF config.interfaces.set THEN "interfaces" ELSE "close"
  /\ i' = IF config.interfaces.set THEN 0 ELSE i
  /\ UNCHANGED <<config, data_conns, xo, stack, out, misuse, macReads,
                 prevOut, prevReads>>

\* lines 227-259, one iteration with asprintf succeeding
Interface ==
  /\ pc = "interfaces"
  /\ i < Len(config.interfaces.v)
  /\ \E read \in MacFileReads :
       /\ macReads' = Append(macReads, read)
       /\ Emit(InterfaceCalls(config, i, Append(macReads, read)),
               "interfaces", i + 1)
  /\ UNCHANGED <<config, data_conns, prevOut, prevReads>>

\* lines 235-237, asprintf failing
InterfaceNoMemory ==
  /\ pc = "interfaces"
  /\ i < Len(config.interfaces.v)
  /\ pc' = "exit_failure"
  /\ xo' = ErrorExit(xo)
  /\ UNCHANGED <<config, data_conns, i, stack, out, misuse, macReads,
                 prevOut, prevReads>>

\* line 227 when interfaces[i] == NULL
InterfacesDone ==
  /\ pc = "interfaces"
  /\ i = Len(config.interfaces.v)
  /\ pc' = "close"
  /\ UNCHANGED <<config, data_conns, i, xo, stack, out, misuse, macReads,
                 prevOut, prevReads>>

\* lines 262-264
Close ==
  /\ pc = "close"
  /\ Emit(CloseCalls, "end_document", i)
  /\ UNCHANGED <<config, data_conns, macReads, prevOut, prevReads>>

\* lines 266-268: xmlTextWriterEndDocument, then the function returns
EndDocumentReturn ==
  /\ pc = "end_document"
  /\ \/ /\ SetWriter(EndDocument(Writer))
        /\ xo' = ScopeExit(xo)
        /\ pc' = "done"
     \/ /\ SetWriter(Writer)
        /\ xo' = ErrorExit(xo)
        /\ pc' = "exit_failure"
  /\ UNCHANGED <<config, data_conns, i, macReads, prevOut, prevReads>>

\* generate_physical_xml is called again with the same config and data_conns
Regenerate ==
  /\ pc = "done"
  /\ prevOut' = Ptr(out)
  /\ prevReads' = macReads
  /\ pc' = "new_writer"
  /\ i' = 0
  /\ xo' = "NULL"
  /\ stack' = <<>>
  /\ out' = <<>>
  /\ misuse' = "none"
  /\ macReads' = <<>>
  /\ UNCHANGED <<config, data_conns>>

Generate ==
  \/ NewTextWriter \/ StartDocument \/ Comments \/ DomainHead \/ Cpu
  \/ Clock \/ OsFeatures \/ Disk \/ DisksDone \/ Removable \/ RemovableDone
  \/ InterfacesIf \/ Interface \/ InterfaceNoMemory \/ InterfacesDone
  \/ Close \/ EndDocumentReturn \/ Regenerate

ComposerIdle ==
  /\ config = MkConfig(PlainHost, <<>>, Null, Null, Null)
  /\ data_conns = <<>>
  /\ pc = "idle"
  /\ i = 0
  /\ xo = "NULL"
  /\ stack = <<>>
  /\ out = <<>>
  /\ misuse = "none"
  /\ macReads = <<>>
  /\ prevOut = Null
  /\ prevReads = <<>>

ResolverIdle == r_map = Null /\ r_iface = <<>> /\ r_ret = Null

NamerIdle == n_i = 0 /\ n_j = 0 /\ n_ret = Null

Init ==
  /\ config \in Configs
  /\ data_conns \in PortVectors
  /\ pc = "new_writer"
  /\ i = 0
  /\ xo = "NULL"
  /\ stack = <<>>
  /\ out = <<>>
  /\ misuse = "none"
  /\ macReads = <<>>
  /\ prevOut = Null
  /\ prevReads = <<>>
  /\ ResolverIdle
  /\ NamerIdle

Next == Generate /\ UNCHANGED resolverVars /\ UNCHANGED namerVars

Spec == Init /\ [][Next]_vars

----------------------------------------------------------------------------
(* map_interface_to_network and guestfs_int_drive_name on their own *)

ResolverChars == {"e", ":"}

ResolverStrings == SeqsUpTo(ResolverChars, MaxStrLen)

ResolverMaps == {Null} \cup {Ptr(m) : m \in SeqsUpTo(ResolverStrings, MaxMapLen)}

InitResolver ==
  /\ r_map \in ResolverMaps
  /\ r_iface \in ResolverStrings
  /\ r_ret = Null
  /\ ComposerIdle
  /\ NamerIdle

Resolve ==
  /\ ~r_ret.set
  /\ r_ret' = Ptr(map_interface_to_network(r_map, r_iface))
  /\ UNCHANGED <<r_map, r_iface>>
  /\ UNCHANGED composerVars
  /\ UNCHANGED namerVars

NextResolver == Resolve

SpecResolver == InitResolver /\ [][NextResolver]_vars

InitNamer ==
  /\ n_i \in 0..MaxIndex
  /\ n_j \in 0..MaxIndex
  /\ n_ret = Null
  /\ ComposerIdle
  /\ ResolverIdle

Name ==
  /\ ~n_ret.set
  /\ n_ret' = Ptr(<<DriveNamer(n_i), DriveNamer(n_j)>>)
  /\ UNCHANGED <<n_i, n_j>>
  /\ UNCHANGED composerVars
  /\ UNCHANGED resolverVars

NextNamer == Name

SpecNamer == InitNamer /\ [][NextNamer]_vars

----------------------------------------------------------------------------
(* Reading the sequence of writer calls *)

Indices(o) == [k \in 1..Len(o) |-> k]

StartsOf(o, name) ==
  SelectSeq(Indices(o), LAMBDA k : o[k].op = "start" /\ o[k].name = name)

\* the index of the end that closes the element started before q, or
\* Len(o) + 1 if there is none
RECURSIVE MatchEnd(_, _, _)
MatchEnd(o, q, depth) ==
  IF q > Len(o) THEN q
  ELSE IF o[q].op = "start" THEN MatchEnd(o, q + 1, depth + 1)
  ELSE IF o[q].op = "end"
       THEN IF depth = 1 THEN q ELSE MatchEnd(o, q + 1, depth - 1)
  ELSE MatchEnd(o, q + 1, depth)

\* the attributes of the element started at p
RECURSIVE LastAttr(_, _)
LastAttr(o, k) ==
  IF k + 1 <= Len(o) /\ o[k + 1].op = "attr" THEN LastAttr(o, k + 1) ELSE k

OwnAttrs(o, p) == (p + 1)..LastAttr(o, p)

HasAttr(o, p, key, value) ==
  \E k \in OwnAttrs(o, p) : o[k].name = key /\ o[k].val = value

\* the elements called name inside the element started at p
Inside(o, p, name) ==
  {k \in (p + 1)..(MatchEnd(o, p + 1, 1) - 1) :
     o[k].op = "start" /\ o[k].name = name}

DiskElems(o, device) ==
  SelectSeq(StartsOf(o, "disk"), LAMBDA p : HasAttr(o, p, "device", L(device)))

\* replay of the calls: the open elements, the number of elements opened
\* at depth 0, and whether every end closed the innermost open element
RECURSIVE Replay(_, _, _)
Replay(o, k, r) ==
  IF k > Len(o) THEN r
  ELSE IF o[k].op = "start"
  THEN Replay(o, k + 1,
              [r EXCEPT !.open = Append(r.open, o[k].name),
                        !.roots = IF r.open = <<>>
                                  THEN Append(r.roots, o[k].name)
                                  ELSE r.roots])
  ELSE IF o[k].op = "end"
  THEN IF r.open # <<>> /\ r.open[Len(r.open)] = o[k].name
       THEN Replay(o, k + 1,
                   [r EXCEPT !.open = SubSeq(r.open, 1, Len(r.open) - 1)])
       ELSE [r EXCEPT !.lifo = FALSE]
  ELSE Replay(o, k + 1, r)

Nesting(o) == Replay(o, 1, [open |-> <<>>, roots |-> <<>>, lifo |-> TRUE])

Count(o, op) == Cardinality({k \in 1..Len(o) : o[k].op = op})

Terminal == pc \in {"done", "exit_failure"}

----------------------------------------------------------------------------
(* Network Resolver *)

FirstColon(e) == CHOOSE c \in 1..Len(e) : e[c] = ":" /\ \A b \in 1..(c - 1) : e[b] # ":"

\* the first-match algorithm: catch-all entry, or split at the first ':'
RECURSIVE FirstMatchFrom(_, _, _)
FirstMatchFrom(m, iface, k) ==
  IF k > Len(m) THEN Default
  ELSE IF ~StrChr(m[k], ":") THEN m[k]
  ELSE LET c == FirstColon(m[k])
           prefix == SubSeq(m[k], 1, c - 1)
           suffix == SubSeq(m[k], c + 1, Len(m[k]))
       IN IF prefix = iface THEN suffix
          ELSE FirstMatchFrom(m, iface, k + 1)

FirstMatch(map, iface) ==
  IF ~map.set \/ map.v = <<>> THEN Default ELSE FirstMatchFrom(map.v, iface, 1)

\* C1 as stated: for every network_map and every interface name, also one
\* that contains ':', map_interface_to_network returns what the first-match
\* algorithm returns.
C1_AsStated == r_ret.set => r_ret.v = FirstMatch(r_map, r_iface)

\* C1 amended: for every network_map and every interface name that contains
\* no ':', map_interface_to_network returns what the first-match algorithm
\* returns.
C1_Resolver ==
  (r_ret.set /\ ~StrChr(r_iface, ":")) => r_ret.v = FirstMatch(r_map, r_iface)

\* a non-matching entry with a colon is passed over and an entry with two
\* colons matches: everything after its first colon is returned
C1_Witness ==
  /\ r_ret.set
  /\ r_iface = <<"e">>
  /\ r_map.set
  /\ r_map.v = <<<<"e", "e", ":">>, <<"e", ":", ":">>>>
  /\ r_ret.v = <<":">>

----------------------------------------------------------------------------
(* Disk rule *)

DevOf(o, p) ==
  LET t == CHOOSE k \in Inside(o, p, "target") : TRUE
  IN o[CHOOSE a \in OwnAttrs(o, t) : o[a].name = "dev"].val

PortOf(o, p) ==
  LET h == CHOOSE k \in Inside(o, p, "host") : TRUE
  IN o[CHOOSE a \in OwnAttrs(o, h) : o[a].name = "port"].val

\* C2: in a completed generation the target dev of disks[i] is
\* "sd"+DriveNamer(i) if disks[i] begins with "/", disks[i] itself if it does
\* not and has length <= 63, and "sd"+DriveNamer(i) if it does not and has
\* length >= 64; i is the position of the disk in disks.
C2_TargetDev ==
  pc = "done" =>
    LET dd == DiskElems(out, "disk")
    IN /\ Len(dd) = Len(config.disks)
       /\ \A k \in 1..Len(dd) :
            LET d == config.disks[k]
                sd == <<"s", "d">> \o DriveName(k - 1)
            IN DevOf(out, dd[k]) =
                 IF Len(d) > 0 /\ d[1] = "/" THEN sd
                 ELSE IF Len(d) <= 63 THEN d
                 ELSE sd

\* a name of 63 characters is kept and a name of 64, in second place, is
\* replaced by "sdb"
C2_Witness ==
  /\ pc = "done"
  /\ Len(config.disks) = 2
  /\ Len(config.disks[1]) = 63
  /\ Len(config.disks[2]) = 64
  /\ DevOf(out, DiskElems(out, "disk")[2]) = <<"s", "d", "b">>

\* C3: in a completed generation there is one <disk device="disk"> per entry
\* of disks, in order, the i-th with host port data_conns[i].nbd_remote_port,
\* then one <disk device="cdrom"> per entry of removable (none if it is
\* absent), all before any <interface>.
C3_DiskOrder ==
  pc = "done" =>
    LET dd == DiskElems(out, "disk")
        cd == DiskElems(out, "cdrom")
        ifs == StartsOf(out, "interface")
    IN /\ Len(dd) = Len(config.disks)
       /\ \A k \in 1..Len(dd) : PortOf(out, dd[k]) = FormatDec(data_conns[k])
       /\ Len(cd) = IF config.removable.set THEN Len(config.removable.v) ELSE 0
       /\ Len(dd) + Len(cd) = Len(StartsOf(out, "disk"))
       /\ \A a \in 1..Len(dd), b \in 1..Len(cd) : dd[a] < cd[b]
       /\ \A a \in 1..Len(StartsOf(out, "disk")), b \in 1..Len(ifs) :
            MatchEnd(out, StartsOf(out, "disk")[a] + 1, 1) < ifs[b]

C3_Witness ==
  /\ pc = "done"
  /\ Len(DiskElems(out, "disk")) = 2
  /\ Len(DiskElems(out, "cdrom")) = 1
  /\ Len(StartsOf(out, "interface")) = 2
  /\ PortOf(out, DiskElems(out, "disk")[2]) = FormatDec(data_conns[2])

----------------------------------------------------------------------------
(* Element nesting *)

\* C4: in a generation that runs to completion without a writer error the
\* stack of open elements is empty before the first start and after the last
\* end, every started element is ended once, each end closes the innermost
\* open element, and the one element opened at depth 0 is domain.
C4_Nesting ==
  /\ Count(out, "start") = 0 => stack = <<>>
  /\ pc \in {"end_document", "done"} =>
       /\ stack = <<>>
       /\ misuse = "none"
       /\ Count(out, "start") = Count(out, "end")
       /\ Nesting(out).lifo
       /\ Nesting(out).open = <<>>
       /\ Nesting(out).roots = <<"domain">>

C4_Witness ==
  /\ pc = "done"
  /\ config.rtc.basis = BASIS_UTC
  /\ config.rtc.offset # 0
  /\ Count(out, "start") = Count(out, "end")
  /\ Len(StartsOf(out, "topology")) = 1

\* C10: an attribute is written only while an element is open and before any
\* child element, empty element or text is written inside the innermost one.
C10_AttributesFirst ==
  /\ misuse # "attr"
  /\ \A k \in 1..Len(out) :
       out[k].op = "attr" =>
         /\ k > 1
         /\ out[k - 1].op \in {"start", "attr"}
  /\ stack # <<>> /\ out # <<>> /\ out[Len(out)].op = "attr"
       => ~stack[Len(stack)].body

C10_Witness ==
  /\ pc = "done"
  /\ \E k \in 1..Len(out) : out[k].op = "attr" /\ out[k].name = "threads"
  /\ \E k \in 1..Len(out) : out[k].op = "attr" /\ out[k].name = "port"

----------------------------------------------------------------------------
(* Drive Namer *)

\* dictionary order on sequences of letter numbers
RECURSIVE LexLess(_, _)
LexLess(a, b) ==
  IF b = <<>> THEN FALSE
  ELSE IF a = <<>> THEN TRUE
  ELSE IF a[1] # b[1] THEN a[1] < b[1]
  ELSE LexLess(Tail(a), Tail(b))

\* shorter first, dictionary order among names of one length
ShortLexLess(a, b) ==
  Len(a) < Len(b) \/ (Len(a) = Len(b) /\ LexLess(a, b))

\* C5 as stated: for i < j, DriveNamer(i) differs from DriveNamer(j) and
\* comes before it in dictionary order.
C5_AsStated ==
  (n_ret.set /\ n_i < n_j) =>
    n_ret.v[1] # n_ret.v[2] /\ LexLess(n_ret.v[1], n_ret.v[2])

\* C5 amended: for i < j, DriveNamer(i) differs from DriveNamer(j) and comes
\* before it in the order that puts shorter names first and names of one
\* length in dictionary order.
C5_DriveNamer ==
  (n_ret.set /\ n_i < n_j) =>
    n_ret.v[1] # n_ret.v[2] /\ ShortLexLess(n_ret.v[1], n_ret.v[2])

\* "zz" and "aaa"
C5_Witness ==
  /\ n_ret.set
  /\ n_i = 701
  /\ n_j = 702
  /\ n_ret.v = <<<<25, 25>>, <<0, 0, 0>>>>

----------------------------------------------------------------------------
(* Interfaces and the MAC reader *)

HasMac(o, p) == Inside(o, p, "mac") # {}

C7_MacPerInterface ==
  pc = "done" =>
    LET ifs == StartsOf(out, "interface")
        n == IF config.interfaces.set THEN Len(config.interfaces.v) ELSE 0
    IN /\ Len(ifs) = n
       /\ Len(macReads) = n
       /\ \A k \in 1..n :
            /\ DevOf(out, ifs[k]) = config.interfaces.v[k]
            /\ HasMac(out, ifs[k]) <=> macReads[k].set

\* the read succeeds for the first interface and fails for the second
C7_Witness ==
  /\ pc = "done"
  /\ Len(macReads) = 2
  /\ macReads[1].set
  /\ ~macReads[2].set
  /\ HasMac(out, StartsOf(out, "interface")[1])
  /\ ~HasMac(out, StartsOf(out, "interface")[2])

----------------------------------------------------------------------------
(* Exits *)

\* C8 as stated: when a writer call fails while elements are open, every
\* open element is ended before generation exits.
C8_AsStated == pc = "exit_failure" => stack = <<>>

\* C8 amended: every start is paired with an end when generation completes;
\* when a writer call fails while elements are open, generation exits at
\* once and the elements stay open.
C8_ExitLeavesOpen ==
  /\ [](pc = "done" =>
          stack = <<>> /\ Count(out, "start") = Count(out, "end"))
  /\ [][(pc' = "exit_failure" /\ stack # <<>>) =>
          (stack' # <<>> /\ Count(out', "end") < Count(out', "start"))]_vars

C8_Witness ==
  /\ pc = "exit_failure"
  /\ Len(stack) = 5
  /\ stack[5].name = "host"
  /\ stack[1].name = "domain"

\* C9 as stated: the writer, once opened, is released on every exit of
\* generate_physical_xml, the fatal ones included.
C9_AsStated == Terminal => xo # "open"

\* C9 amended: the writer is opened once at the start of generation and is
\* released when generation completes; on a fatal-error exit the process
\* ends without releasing it.
C9_ReleasedOnReturn ==
  /\ [](pc = "done" => xo = "freed")
  /\ [](pc = "exit_failure" => xo # "freed")
  /\ [](pc \notin {"idle", "new_writer", "done", "exit_failure"} => xo = "open")
  /\ [][xo' = "open" /\ xo # "open" => pc = "new_writer"]_vars

C9_Witness == pc = "exit_failure" /\ xo = "open" /\ Len(out) > 20

====
